---- MODULE Spec2Model ----
(***************************************************************************)
(* Model of the Ergometer utility functions: the generic binary search     *)
(* (lowerBound / upperBound), the keyed dispatch switchOnKey, the range    *)
(* generator (both copies) and mod.                                        *)
(*                                                                         *)
(* Every function is modelled as the sequence of steps its code takes, on  *)
(* inputs drawn from bounded sets by the initial condition.                *)
(***************************************************************************)
EXTENDS Integers, Sequences, FiniteSets, TLC

VARIABLES
    \* binarySearchWith
    xs, x, key, compare, start, end, bpc, ret,
    \* switchOnKey
    object, handlers, defaultHandler, entries, idx, foundKey, handler,
    invoked, result, kpc,
    \* range
    copy, args, rstart, rend, rstep, sign, i, yielded, rpc,
    \* mod
    dividend, divisor, remainder, mpc

searchVars == <<xs, x, key, compare, start, end, bpc, ret>>
switchVars == <<object, handlers, defaultHandler, entries, idx, foundKey,
                handler, invoked, result, kpc>>
rangeVars  == <<copy, args, rstart, rend, rstep, sign, i, yielded, rpc>>
modVars    == <<dividend, divisor, remainder, mpc>>
vars == <<searchVars, switchVars, rangeVars, modVars>>

-----------------------------------------------------------------------------
(* Bounds *)
MaxLen == 4         \* longest searched sequence
MaxVal == 2         \* elements of searched sequences are 0..MaxVal

-----------------------------------------------------------------------------
(* Shared helpers *)

SeqsUpTo(S, n) == UNION {[1..k -> S] : k \in 0..n}

Abs(n) == IF n < 0 THEN -n ELSE n

\* Math.sign on integers
MathSign(n) == IF n > 0 THEN 1 ELSE IF n < 0 THEN -1 ELSE 0

-----------------------------------------------------------------------------
(* binarySearchWith, lowerBound, upperBound *)

NotCalled == -1

\* The key-extraction functions a caller passes; "identity" is the default
\* parameter value key = x => x.
KeyFns == {"identity", "half", "negate"}

ApplyKey(k, e) ==
    CASE k = "identity" -> e
      [] k = "half"     -> e \div 2
      [] k = "negate"   -> 0 - e

\* Variant: lowerBound built with the comparator of upperBound
CompareLtOrEqual(a, b) == a <= b

\* lowerBound = binarySearchWith((a, b) => a < b)
CompareLt(a, b) == a < b

\* Variant: upperBound built with the comparator of lowerBound
CompareLeStrict(a, b) == a < b

\* upperBound = binarySearchWith((a, b) => a <= b)
CompareLe(a, b) == a <= b

Compare(c, a, b) == IF c = "lowerBound" THEN CompareLt(a, b) ELSE CompareLe(a, b)

\* const i = Math.floor((start + end) / 2)
Mid(s, e) == (s + e) \div 2

\* Variant: end = i - 1 instead of end = i
LoopBodyEndBefore(c, seq, target, k, s, e) ==
    LET m == Mid(s, e) IN
    IF Compare(c, ApplyKey(k, seq[m + 1]), target)
    THEN <<m + 1, e>>
    ELSE <<s, m - 1>>

\* Variant: start = i instead of start = i + 1
LoopBodyNoAdvance(c, seq, target, k, s, e) ==
    LET m == Mid(s, e) IN
    IF Compare(c, ApplyKey(k, seq[m + 1]), target)
    THEN <<m, e>>
    ELSE <<s, m>>

\* One iteration of the while loop: the new <<start, end>>.
\* xs is 0-indexed in the source, 1-indexed here.
LoopBody(c, seq, target, k, s, e) ==
    LET m == Mid(s, e) IN
    IF Compare(c, ApplyKey(k, seq[m + 1]), target)
    THEN <<m + 1, e>>
    ELSE <<s, m>>

Example == <<1, 3, 3, 5>>

SearchIdle ==
    /\ xs = <<>> /\ x = 0 /\ key = "identity" /\ compare = "lowerBound"
    /\ start = 0 /\ end = 0 /\ bpc = "off"
    /\ ret = [lowerBound |-> NotCalled, upperBound |-> NotCalled]

SearchInit ==
    /\ \/ /\ xs \in SeqsUpTo(0..MaxVal, MaxLen)
          /\ x \in (0 - MaxVal - 1)..(MaxVal + 1)
          /\ key \in KeyFns
       \/ /\ xs = Example
          /\ x \in {3, 4}
          /\ key = "identity"
    /\ compare = "lowerBound"
    /\ start = 0 /\ end = 0
    /\ bpc = "idle"
    /\ ret = [lowerBound |-> NotCalled, upperBound |-> NotCalled]

\* A call of lowerBound or upperBound on the inputs: let start = 0,
\* let end = xs.length
SearchCall(c) ==
    /\ bpc = "idle"
    /\ ret[c] = NotCalled
    /\ compare' = c
    /\ start' = 0
    /\ end' = Len(xs)
    /\ bpc' = "loop"
    /\ UNCHANGED <<xs, x, key, ret>>
    /\ UNCHANGED <<switchVars, rangeVars, modVars>>

\* while (start < end) { ... }
SearchLoop ==
    /\ bpc = "loop"
    /\ start < end
    /\ LET se == LoopBody(compare, xs, x, key, start, end) IN
        /\ start' = se[1]
        /\ end' = se[2]
    /\ UNCHANGED <<xs, x, key, compare, bpc, ret>>
    /\ UNCHANGED <<switchVars, rangeVars, modVars>>

\* return start
SearchReturn ==
    /\ bpc = "loop"
    /\ ~(start < end)
    /\ ret' = [ret EXCEPT ![compare] = start]
    /\ bpc' = "idle"
    /\ UNCHANGED <<xs, x, key, compare, start, end>>
    /\ UNCHANGED <<switchVars, rangeVars, modVars>>

SearchNext ==
    \/ \E c \in {"lowerBound", "upperBound"} : SearchCall(c)
    \/ SearchLoop
    \/ SearchReturn

-----------------------------------------------------------------------------
(* switchOnKey *)

\* Property names.  "1" is an integer-like name: Object.entries lists such
\* names first, in ascending numeric order, before the other names in
\* insertion order.
Keys == {"", "a", "b", "1"}
IntegerKeys == {"1"}
ProtoKeys == {"", "a"}

\* Handler functions; "none" is an absent (undefined) defaultHandler.
HandlerFns == {"h1", "h2"}
DefaultFns == {"none", "hd", "h1"}

MaxHandlers == 3    \* most entries of a handler mapping

\* let foundKey: undefined is <<>>, a key k is <<k>>
Undefined == <<>>

\* JavaScript truthiness of foundKey: undefined and '' are falsy
TruthyKey(fk) == fk # Undefined /\ fk[1] # ""

\* Variant: the handler is invoked without assert(handler)
TruthyHandlerUnchecked(h) == TRUE

\* JavaScript truthiness of a handler: a function is truthy, undefined falsy
TruthyHandler(h) == h # "none"

\* Variant: key in object, which also sees inherited properties
HasProperty(obj, k) == k \in obj.own \cup obj.proto

\* Object.hasOwnProperty.call(object, key): own properties only
HasOwnProperty(obj, k) == k \in obj.own

\* The subsequence of s whose first components satisfy the test
RECURSIVE SelectKeys(_, _)
SelectKeys(s, S) ==
    IF s = <<>> THEN <<>>
    ELSE IF s[1][1] \in S THEN <<s[1]>> \o SelectKeys(Tail(s), S)
         ELSE SelectKeys(Tail(s), S)

\* Object.entries(handlers): integer-like names first (one such name here,
\* so their numeric order is immediate), then the rest in insertion order
ObjectEntries(hs) == SelectKeys(hs, IntegerKeys) \o SelectKeys(hs, Keys \ IntegerKeys)

\* Handler mappings in insertion order: sequences of <<key, handler>> with
\* pairwise distinct keys
HandlerMaps ==
    {hs \in SeqsUpTo(Keys \X HandlerFns, MaxHandlers) :
        \A p, q \in DOMAIN hs : p # q => hs[p][1] # hs[q][1]}

\* The value a handler returns for an object
Invoke(h, obj) == <<h, obj>>

NoResult == <<>>

SwitchIdle ==
    /\ object = [own |-> {}, proto |-> {}] /\ handlers = <<>>
    /\ defaultHandler = "none" /\ entries = <<>> /\ idx = 0
    /\ foundKey = Undefined /\ handler = "none" /\ invoked = <<>>
    /\ result = NoResult /\ kpc = "off"

SwitchInit ==
    /\ object \in [own : SUBSET Keys, proto : SUBSET ProtoKeys]
    /\ handlers \in HandlerMaps
    /\ defaultHandler \in DefaultFns
    /\ entries = <<>> /\ idx = 0
    /\ foundKey = Undefined /\ handler = "none"
    /\ invoked = <<>> /\ result = NoResult
    /\ kpc = "call"

\* let foundKey; let handler = defaultHandler; start of the for loop
SwitchCall ==
    /\ kpc = "call"
    /\ foundKey' = Undefined
    /\ handler' = defaultHandler
    /\ entries' = ObjectEntries(handlers)
    /\ idx' = 1
    /\ kpc' = "loop"
    /\ UNCHANGED <<object, handlers, defaultHandler, invoked, result>>
    /\ UNCHANGED <<searchVars, rangeVars, modVars>>

\* One iteration of for (const [key, h] of Object.entries(handlers))
SwitchLoop ==
    /\ kpc = "loop"
    /\ idx <= Len(entries)
    /\ LET k == entries[idx][1]
           h == entries[idx][2]
       IN IF HasOwnProperty(object, k)
          THEN IF TruthyKey(foundKey)
               THEN \* assert(!foundKey) throws
                    /\ kpc' = "error"
                    /\ UNCHANGED <<foundKey, handler, idx>>
               ELSE /\ foundKey' = <<k>>
                    /\ handler' = h
                    /\ idx' = idx + 1
                    /\ kpc' = kpc
          ELSE /\ idx' = idx + 1
               /\ UNCHANGED <<foundKey, handler, kpc>>
    /\ UNCHANGED <<object, handlers, defaultHandler, entries, invoked, result>>
    /\ UNCHANGED <<searchVars, rangeVars, modVars>>

\* return assert(handler)(object)
SwitchReturn ==
    /\ kpc = "loop"
    /\ idx > Len(entries)
    /\ IF TruthyHandler(handler)
       THEN /\ invoked' = Append(invoked, handler)
            /\ result' = Invoke(handler, object)
            /\ kpc' = "returned"
       ELSE /\ kpc' = "error"
            /\ UNCHANGED <<invoked, result>>
    /\ UNCHANGED <<object, handlers, defaultHandler, entries, idx, foundKey, handler>>
    /\ UNCHANGED <<searchVars, rangeVars, modVars>>

SwitchNext ==
    \/ SwitchCall
    \/ SwitchLoop
    \/ SwitchReturn

-----------------------------------------------------------------------------
(* range: the copy of src/util.js ("util") and the copy with the sign test *)
(* ("signed")                                                              *)

MaxArg == 2         \* arguments of range are in -MaxArg..MaxArg

\* JavaScript numbers are doubles: once |i| is large enough (2^53 for a step
\* of 1), i += step leaves i unchanged.  NumLimit is that magnitude, scaled
\* down; it is beyond every value a loop that ends can reach.
NumLimit == 3 * (MaxArg + 1)

\* i += step
PlusAssign(n, s) == IF Abs(n + s) > NumLimit THEN n ELSE n + s

Copies == {"util", "signed"}

\* const [start, end, step = 1] = args.length > 1 ? args : [0, args[0]]
Destructure(a) ==
    LET t == IF Len(a) > 1 THEN a ELSE <<0, a[1]>>
    IN  <<t[1], t[2], IF Len(t) > 2 THEN t[3] ELSE 1>>

\* Variant: no assertion on the sign
SignNeverZero(s, e) == FALSE

\* assert(Math.sign(end - start)) throws: the sign is 0, which is falsy
SignIsZero(s, e) == MathSign(e - s) = 0

\* The loop condition: i < end in src/util.js, (end - i) * sign > 0 in the
\* signed copy
LoopCondition(c, n, e, sg) ==
    IF c = "util" THEN n < e ELSE (e - n) * sg > 0

RangeIdle ==
    /\ copy = "util" /\ args = <<>> /\ rstart = 0 /\ rend = 0 /\ rstep = 0
    /\ sign = 0 /\ i = 0 /\ yielded = 0 /\ rpc = "off"

RangeInit ==
    /\ copy \in Copies
    /\ args \in SeqsUpTo((0 - MaxArg)..MaxArg, 3)
    /\ rstart = 0 /\ rend = 0 /\ rstep = 0 /\ sign = 0 /\ i = 0
    /\ yielded = 0
    /\ rpc = "call"

\* The first next(): the body up to the loop
RangeCall ==
    /\ rpc = "call"
    /\ IF Len(args) = 0
       THEN \* assert(args.length) throws
            /\ rpc' = "error"
            /\ UNCHANGED <<rstart, rend, rstep, sign, i>>
       ELSE LET d == Destructure(args)
                sg == MathSign(d[2] - d[1])
                zero == SignIsZero(d[1], d[2])
            IN  /\ rstart' = d[1]
                /\ rend' = d[2]
                /\ rstep' = d[3]
                /\ IF copy = "signed" /\ zero
                   THEN \* assert(Math.sign(end - start)) throws
                        /\ rpc' = "error"
                        /\ UNCHANGED <<sign, i>>
                   ELSE /\ sign' = (IF copy = "signed" THEN sg ELSE sign)
                        /\ i' = d[1]
                        /\ rpc' = "test"
    /\ UNCHANGED <<copy, args, yielded>>
    /\ UNCHANGED <<searchVars, switchVars, modVars>>

\* The loop condition, then yield i (the generator suspends) or the end
RangeTest ==
    /\ rpc = "test"
    /\ IF LoopCondition(copy, i, rend, sign)
       THEN /\ rpc' = "yield"
            /\ yielded' = 1
       ELSE /\ rpc' = "done"
            /\ UNCHANGED yielded
    /\ UNCHANGED <<copy, args, rstart, rend, rstep, sign, i>>
    /\ UNCHANGED <<searchVars, switchVars, modVars>>

\* The next next(): i += step
RangeResume ==
    /\ rpc = "yield"
    /\ i' = PlusAssign(i, rstep)
    /\ rpc' = "test"
    /\ UNCHANGED <<copy, args, rstart, rend, rstep, sign, yielded>>
    /\ UNCHANGED <<searchVars, switchVars, modVars>>

RangeNext ==
    \/ RangeCall
    \/ RangeTest
    \/ RangeResume

-----------------------------------------------------------------------------
(* mod *)

MaxDividend == 8    \* dividends are in -MaxDividend..MaxDividend
MaxDivisor == 4     \* divisors are in -MaxDivisor..MaxDivisor, 0 excluded

\* JavaScript's % on integers: the remainder of the division truncated
\* toward zero, with the sign of the dividend (b # 0)
JsRemainder(a, b) == MathSign(a) * (Abs(a) % Abs(b))

SignsDiffer(a, b) == MathSign(a) # MathSign(b)

\* Variant: the bare remainder, without the sign adjustment
modTruncated(a, b) == JsRemainder(a, b)

mod(a, b) ==
    LET r == JsRemainder(a, b)
    IN  IF r # 0 /\ SignsDiffer(a, b) THEN r + b ELSE r

ModIdle ==
    /\ dividend = 0 /\ divisor = 1 /\ remainder = 0 /\ mpc = "off"

\* divisor 0 gives NaN and is outside the integers modelled here
ModInit ==
    /\ dividend \in (0 - MaxDividend)..MaxDividend
    /\ divisor \in ((0 - MaxDivisor)..MaxDivisor) \ {0}
    /\ remainder = 0
    /\ mpc = "call"

ModCall ==
    /\ mpc = "call"
    /\ remainder' = mod(dividend, divisor)
    /\ mpc' = "returned"
    /\ UNCHANGED <<dividend, divisor>>
    /\ UNCHANGED <<searchVars, switchVars, rangeVars>>

ModNext == ModCall

-----------------------------------------------------------------------------
(* Specifications: one per function *)

SearchSpecInit == SearchInit /\ SwitchIdle /\ RangeIdle /\ ModIdle
SearchSpec == SearchSpecInit /\ [][SearchNext]_vars
\* The caller runs each call to its return
SearchFairSpec == SearchSpec /\ WF_vars(SearchNext)

SwitchSpecInit == SearchIdle /\ SwitchInit /\ RangeIdle /\ ModIdle
SwitchSpec == SwitchSpecInit /\ [][SwitchNext]_vars

RangeSpecInit == SearchIdle /\ SwitchIdle /\ RangeInit /\ ModIdle
RangeSpec == RangeSpecInit /\ [][RangeNext]_vars
\* The consumer iterates the generator: it keeps calling next()
RangeFairSpec == RangeSpec /\ WF_vars(RangeNext)

ModSpecInit == SearchIdle /\ SwitchIdle /\ RangeIdle /\ ModInit
ModSpec == ModSpecInit /\ [][ModNext]_vars

-----------------------------------------------------------------------------
(* Properties of lowerBound and upperBound *)

\* key(xs[j]) for the 0-based index j of the source
KeyAt(j) == ApplyKey(key, xs[j + 1])

Indices == 0..(Len(xs) - 1)

SortedByKey == \A p, q \in Indices : p < q => KeyAt(p) <= KeyAt(q)

Least(S) == CHOOSE m \in S : \A n \in S : m <= n

\* The smallest index whose key satisfies the test, or xs.length
FirstNotLess == LET S == {j \in Indices : KeyAt(j) >= x}
                IN  IF S = {} THEN Len(xs) ELSE Least(S)
FirstGreater == LET S == {j \in Indices : KeyAt(j) > x}
                IN  IF S = {} THEN Len(xs) ELSE Least(S)

Returned(c) == ret[c] # NotCalled

\* C1: on a sequence sorted ascending by key, lowerBound returns the smallest
\* index i with key(xs[i]) >= x, and xs.length when there is none;
\* lowerBound([1,3,3,5], 3) = 1 and lowerBound([1,3,3,5], 4) = 3.
C1_LowerBoundIsFirstNotLess ==
    (Returned("lowerBound") /\ SortedByKey) =>
        /\ ret.lowerBound = FirstNotLess
        /\ (xs = Example /\ key = "identity" /\ x = 3) => ret.lowerBound = 1
        /\ (xs = Example /\ key = "identity" /\ x = 4) => ret.lowerBound = 3

C1_Witness ==
    /\ Returned("lowerBound") /\ SortedByKey
    /\ xs = Example /\ x = 3 /\ ret.lowerBound = 1

\* C2: on a sequence sorted ascending by key, upperBound returns the smallest
\* index i with key(xs[i]) > x, and xs.length when there is none;
\* upperBound([1,3,3,5], 3) = 3 and upperBound([1,3,3,5], 4) = 3.
C2_UpperBoundIsFirstGreater ==
    (Returned("upperBound") /\ SortedByKey) =>
        /\ ret.upperBound = FirstGreater
        /\ (xs = Example /\ key = "identity" /\ x = 3) => ret.upperBound = 3
        /\ (xs = Example /\ key = "identity" /\ x = 4) => ret.upperBound = 3

C2_Witness ==
    /\ Returned("upperBound") /\ SortedByKey
    /\ xs = Example /\ x = 3 /\ ret.upperBound = 3

\* C3: on a sequence sorted ascending by key, lowerBound <= upperBound and
\* the indices whose key equals x are exactly those of the half-open range
\* [lowerBound, upperBound).
C3_EqualRange ==
    (Returned("lowerBound") /\ Returned("upperBound") /\ SortedByKey) =>
        /\ ret.lowerBound <= ret.upperBound
        /\ \A j \in Indices :
            (KeyAt(j) = x) <=> (ret.lowerBound <= j /\ j < ret.upperBound)

\* Two elements with the key x, between a smaller and a larger one
C3_Witness ==
    /\ Returned("lowerBound") /\ Returned("upperBound") /\ SortedByKey
    /\ key = "negate"
    /\ ret.lowerBound > 0
    /\ ret.upperBound = ret.lowerBound + 2
    /\ ret.upperBound < Len(xs)

\* C9: on every sequence, sorted or not, the loop keeps
\* 0 <= start <= end <= xs.length, every iteration strictly shrinks
\* end - start, both searches return, and what they return is an index in
\* 0..xs.length, which is 0 for the empty sequence.
C9_LoopBoundsAndTermination ==
    /\ [](0 <= start /\ start <= end /\ end <= Len(xs))
    /\ [][(bpc = "loop" /\ bpc' = "loop") => (end' - start' < end - start)]_vars
    /\ [](\A c \in {"lowerBound", "upperBound"} :
            Returned(c) => /\ ret[c] \in 0..Len(xs)
                           /\ (xs = <<>> => ret[c] = 0))
    /\ <>(Returned("lowerBound") /\ Returned("upperBound"))

\* An unsorted sequence that took three iterations
C9_Witness ==
    /\ ~SortedByKey
    /\ Len(xs) = MaxLen
    /\ bpc = "loop" /\ start = end /\ start \in 1..(Len(xs) - 1)

-----------------------------------------------------------------------------
(* Properties of switchOnKey *)

HandlerKeys == {handlers[p][1] : p \in DOMAIN handlers}

HandlerOf(k) == LET p == CHOOSE q \in DOMAIN handlers : handlers[q][1] = k
                IN  handlers[p][2]

\* The keys of the mapping that are own properties of the object
Matching == {k \in HandlerKeys : k \in object.own}

Finished == kpc \in {"returned", "error"}

\* C4: when two or more keys of the mapping are own properties of the object,
\* whatever their names, switchOnKey fails with the assertion error and
\* returns no handler's result.
C4_MultipleMatchesFail ==
    (Finished /\ Cardinality(Matching) >= 2) =>
        (kpc = "error" /\ invoked = <<>> /\ result = NoResult)

\* C5: switchOnKey invokes at most one handler, once, with the object, and
\* returns its result; with exactly one matching own key it is the handler of
\* that key, with no matching own key it is the default handler.
C5_SelectsOneHandler ==
    /\ Len(invoked) <= 1
    /\ kpc = "returned" =>
        /\ Len(invoked) = 1
        /\ result = Invoke(invoked[1], object)
    /\ Finished =>
        /\ \A k \in Keys :
             Matching = {k} =>
                /\ kpc = "returned"
                /\ invoked = <<HandlerOf(k)>>
        /\ (Matching = {} /\ defaultHandler # "none") =>
                /\ kpc = "returned"
                /\ invoked = <<defaultHandler>>

\* One own key matches while another key of the mapping is only inherited
C5_Witness ==
    /\ kpc = "returned"
    /\ Matching = {"b"}
    /\ "a" \in HandlerKeys /\ "a" \in object.proto \ object.own
    /\ HandlerOf("a") # HandlerOf("b")
    /\ defaultHandler = "hd"
    /\ invoked = <<HandlerOf("b")>>

\* C6: with no matching own key and an absent default handler, switchOnKey
\* fails with the assertion error and invokes no handler.
C6_NoHandlerFails ==
    (Finished /\ Matching = {} /\ defaultHandler = "none") =>
        (kpc = "error" /\ invoked = <<>> /\ result = NoResult)

C6_Witness ==
    /\ kpc = "error"
    /\ Matching = {} /\ defaultHandler = "none"
    /\ Len(handlers) >= 2
    /\ object.own # {} /\ object.proto \cap HandlerKeys # {}

-----------------------------------------------------------------------------
(* Properties of range *)

Terminated == rpc \in {"done", "error"}

\* C7: for every argument list, iterating the generator eventually ends,
\* by finishing or by raising the assertion error.
C7_RangeTerminates == <>Terminated

NoArguments == Len(args) = 0

\* end equals start, as in range(0) and range(3, 3)
EndEqualsStart == Len(args) > 0 /\ Destructure(args)[1] = Destructure(args)[2]

RaisedWithoutValue == rpc = "error" /\ yielded = 0

\* C8, as stated: range raises the assertion error, yielding no value, when
\* end equals start and when called with no arguments.
C8_DegenerateRaises ==
    (rpc # "call" /\ (NoArguments \/ EndEqualsStart)) => RaisedWithoutValue

\* C8, amended: both copies raise without a value when called with no
\* arguments; when end equals start the copy with the sign test raises
\* without a value, and the copy of src/util.js raises nothing and yields
\* nothing.
C8_DegenerateRaisesInSignedCopy ==
    rpc # "call" =>
        /\ NoArguments => RaisedWithoutValue
        /\ (EndEqualsStart /\ copy = "signed") => RaisedWithoutValue
        /\ (EndEqualsStart /\ copy = "util") =>
                (rpc \in {"test", "done"} /\ yielded = 0)

C8_Witness ==
    /\ copy = "signed" /\ args = <<MaxArg, MaxArg>>
    /\ RaisedWithoutValue

-----------------------------------------------------------------------------
(* Properties of mod *)

\* C10: for a nonzero divisor, mod returns r with dividend - r a multiple of
\* the divisor, |r| < |divisor|, and r either 0 or of the sign of the divisor.
C10_ModResult ==
    (mpc = "returned" /\ divisor # 0) =>
        /\ (dividend - remainder) % Abs(divisor) = 0
        /\ Abs(remainder) < Abs(divisor)
        /\ (remainder = 0 \/ MathSign(remainder) = MathSign(divisor))
        /\ divisor > 0 => remainder \in 0..(divisor - 1)

\* A negative dividend with a positive divisor: -7 mod 3 = 2
C10_Witness ==
    /\ mpc = "returned"
    /\ dividend = -7 /\ divisor = 3 /\ remainder = 2

====
